---- MODULE Spec2Model ----
(***************************************************************************)
(* Model of the event-dispatch engine of src/Profiler.py: the process-wide *)
(* ProcessProfile (hook, thread registry, process-memory sampling, fork    *)
(* policy, live configuration) and the per-thread ThreadProfile (frame     *)
(* map, nesting depth, blocking-time accumulator, output streams).         *)
(*                                                                         *)
(* Python strings on which the code does prefix tests or joins are         *)
(* sequences of one-character strings; None is a distinguished value.      *)
(***************************************************************************)
EXTENDS Integers, Sequences, FiniteSets, TLC

VARIABLES
    pp,          \* the fields of the ProcessProfile object, registry excepted
    threads,     \* ProcessProfile._threads: thread name -> ThreadProfile
    files,       \* the file system: path -> lines written so far
    hook,        \* the profile function installed in the host
    pid,         \* what getpid() returns
    getpid_gone, \* TRUE once the host tears the module down (getpid is None)
    ret,         \* what the last call of ProcessProfile._dispatch returned
    run,         \* per thread inside _dispatch: its position and its locals
    nEvents,     \* history: number of calls of ProcessProfile._dispatch
    last,        \* history: what the last step was and what it met
    calls,       \* history: per thread and call identity, facts of the entry
    brackets,    \* history: per thread and frame, facts of the open bracket
    memlog,      \* history: per thread, facts of each memory-delta line
    window       \* history: per dispatch since the cadence was set, wrote?

vars == <<pp, threads, files, hook, pid, getpid_gone, ret, run, nEvents, last,
          calls, brackets, memlog, window>>

(***************************************************************************)
(* Bounds of the model.                                                    *)
(***************************************************************************)
MaxEvents == 4
MaxForks == 1
MaxFaultEvents == 3
MaxStackEvents == 4
MaxMemEvents == 4
MaxSampleEvents == 5
MaxSleepEvents == 4
MaxHostEvents == 3
MaxConfigEvents == 2
MaxNameEvents == 4
MaxCloseEvents == 3
MaxGilEvents == 3
MaxModeEvents == 3
MaxSharedEvents == 4
MaxToggleEvents == 3
MaxSetterEvents == 2

(***************************************************************************)
(* Python values.                                                          *)
(***************************************************************************)
PyNone == <<"None">>
NoneFreq == -1
DefaultFreq == 1000

Truthy(s) == s # PyNone /\ s # <<>>
FreqTruthy(freq) == freq # NoneFreq /\ freq # 0

StartsWith(s, p) == Len(p) <= Len(s) /\ SubSeq(s, 1, Len(p)) = p

RECURSIVE Join(_, _)
Join(sep, parts) ==
    IF parts = <<>> THEN <<>>
    ELSE IF Len(parts) = 1 THEN parts[1]
    ELSE parts[1] \o sep \o Join(sep, Tail(parts))

Put(f, k, v) == [x \in DOMAIN f \cup {k} |-> IF x = k THEN v ELSE f[x]]
Del(f, k) == [x \in DOMAIN f \ {k} |-> f[x]]
EmptyMap == [x \in {} |-> 0]

(***************************************************************************)
(* The host: files, modules, frames and events.                            *)
(***************************************************************************)
FileA == <<"a", ".", "p", "y">>
FileB == <<"b", ".", "p", "y">>
ModTime == <<"t", "i", "m", "e">>
ModThreading == <<"/", "u", "s", "r", "/", "l", "i", "b", "/", "p", "y", "t",
                  "h", "o", "n", "2", ".", "6", "/", "t", "h", "r", "e", "a",
                  "d", "i", "n", "g", ".", "p", "y">>

CallEvents == {"call", "c_call"}
OutEvents == {"return", "exception", "c_return", "c_exception"}
ManagedEvents == {"call", "return", "exception"}
NativeEvents == {"c_call", "c_return", "c_exception"}

NoArg == [module |-> PyNone, name |-> ""]
Sleep == [module |-> ModTime, name |-> "sleep"]
Acquire == [module |-> PyNone, name |-> "acquire"]
Read == [module |-> ModTime, name |-> "read"]

\* A frame object: its address and its code object.
FrameF == [id |-> 1, co_filename |-> FileA, co_name |-> "f",
           co_firstlineno |-> 10]
FrameG == [id |-> 2, co_filename |-> FileA, co_name |-> "g",
           co_firstlineno |-> 11]

Event(kind, frame, lineno, arg) ==
    [event |-> kind, frame |-> frame, f_lineno |-> lineno,
     arg |-> IF kind \in NativeEvents THEN arg ELSE NoArg]

\* Lines 40-49: the name the thread carried when it first asked. Names are
\* given by the program and need not differ: U1 is a thread named "T1".
getThreadName(t) == IF t = "U1" THEN "T1" ELSE t

(***************************************************************************)
(* Streams. A stream handle is a set: {} is None, {path} an open file.      *)
(***************************************************************************)
Path(p, owner, kind) == [pid |-> p, owner |-> owner, kind |-> kind]
Open(fs, path) == Put(fs, path, <<>>)
Write(fs, h, line) ==
    LET path == CHOOSE x \in h : TRUE IN [fs EXCEPT ![path] = Append(@, line)]

Stamp(times) == IF times THEN "<time>#" ELSE ""

Indent(level) == Join(<<" ">>, [i \in 1..level |-> <<>>])

StackLine(level, times, filename, lineno, name) ==
    [indent |-> Indent(level), stamp |-> Stamp(times), file |-> filename,
     line |-> lineno, name |-> name]

\* Variant: the difference taken the other way round.
MemDeltaReversed(mem_after, mem_before) == mem_before - mem_after

\* Line 402.
MemDelta(mem_after, mem_before) == mem_after - mem_before

MemLine(times, filename, lineno, name, delta) ==
    [stamp |-> Stamp(times), file |-> filename, line |-> lineno,
     name |-> name, delta |-> delta]

ProcLine(times, rss) == [stamp |-> Stamp(times), rss |-> rss]

(***************************************************************************)
(* ThreadProfile.                                                          *)
(***************************************************************************)
SleepTriggers ==
    {[module |-> ModTime, name |-> "sleep"],
     [module |-> ModThreading, name |-> "acquire"],
     [module |-> PyNone, name |-> "acquire"]}

\* Variant: one table, of all six kinds, whatever the mode.
DispatcherOfBoth(profile) == ManagedEvents \cup NativeEvents

\* Lines 288-307.
Dispatcher(profile) ==
    LET mode == IF profile = "None" THEN "both" ELSE profile
    IN  CASE mode = "c" -> NativeEvents
          [] mode = "python" -> ManagedEvents
          [] OTHER -> ManagedEvents \cup NativeEvents

\* Variant: a collector that tracks memory whatever it is asked.
NewThreadProfileTracking(profile, track_memory, track_times, track_stack, track_sleep, mem_stream, stack_stream) ==
    [dispatcher |-> Dispatcher(profile),
     frames |-> EmptyMap,
     sleep_accounting |-> 0,
     sleep_frames |-> EmptyMap,
     stack_level |-> 0,
     file_filter |-> <<>>,
     mem |-> TRUE,
     times |-> track_times,
     stack |-> track_stack,
     sleep_trak |-> track_sleep,
     mem_stream |-> mem_stream,
     stack_stream |-> stack_stream,
     mem_closed |-> FALSE,
     stack_closed |-> FALSE]

\* Lines 280-335.
NewThreadProfile(profile, track_memory, track_times, track_stack, track_sleep, mem_stream, stack_stream) ==
    [dispatcher |-> Dispatcher(profile),
     frames |-> EmptyMap,
     sleep_accounting |-> 0,
     sleep_frames |-> EmptyMap,
     stack_level |-> 0,
     file_filter |-> <<>>,
     mem |-> track_memory,
     times |-> track_times,
     stack |-> track_stack,
     sleep_trak |-> track_sleep,
     mem_stream |-> mem_stream,
     stack_stream |-> stack_stream,
     mem_closed |-> FALSE,
     stack_closed |-> FALSE]

\* The outcome of a piece of a handler: the collector, the file system, whether
\* an exception left it, and (history) what it did.
Ok(c, fs, did) == [c |-> c, files |-> fs, raised |-> FALSE, did |-> did]
Raise(c, fs, did) == [c |-> c, files |-> fs, raised |-> TRUE, did |-> did]

\* Variant: the reading without the blocking-time correction.
GetRawMemory(c, rss) == rss

\* Lines 359-361.
GetMemory(c, rss) == rss - c.sleep_accounting

\* Variant: a collector whose entries ignore the filter.
PassesAnyFile(c, filename) == TRUE

\* Line 376.
PassesFilter(c, filename) == StartsWith(filename, c.file_filter)

\* Variant: native calls keyed like managed ones, by the frame's address.
FrameIdOfAddress(fid_arg, frame) == frame.id

\* Lines 375 and 395: fid if fid else id(frame).
FrameId(fid_arg, frame) == IF fid_arg # 0 THEN fid_arg ELSE frame.id

\* Variant: an exit that applies the current filter to the recorded file.
HasFrameInFilter(c, fid) ==
    fid \in DOMAIN c.frames /\ PassesFilter(c, c.frames[fid].filename)

\* Line 396.
HasFrame(c, fid) == fid \in DOMAIN c.frames

\* Variant: an entry that records the reading without the correction.
PushFrameUncorrected(c, fid, mem, name, filename) ==
    [c EXCEPT !.frames = Put(@, fid, [mem |-> mem + c.sleep_accounting,
                                      name |-> name, filename |-> filename])]

\* Lines 384-385.
PushFrame(c, fid, mem, name, filename) ==
    [c EXCEPT !.frames = Put(@, fid, [mem |-> mem, name |-> name,
                                      filename |-> filename])]

\* Variant: an exit that leaves the frame in the map.
PopFrameKeepingIt(c, fid) == [c EXCEPT !.stack_level = @ - 1]

\* Lines 397 and 399.
PopFrame(c, fid) ==
    [c EXCEPT !.stack_level = @ - 1, !.frames = Del(@, fid)]

HandleIn(c, fs, ev, fid_arg, name_arg, filename_arg, env) ==
    LET filename == IF Truthy(filename_arg) THEN filename_arg
                    ELSE ev.frame.co_filename
        name == IF name_arg # "" THEN name_arg ELSE ev.frame.co_name
        fid == FrameId(fid_arg, ev.frame)
    IN  IF ~PassesFilter(c, filename) THEN Ok(c, fs, {})
        ELSE IF c.stack /\ (c.stack_stream = {} \/ c.stack_closed)
        THEN Raise(c, fs, {})
        ELSE IF c.stack /\ env.fault = "stack_write"
        THEN Raise(c, fs, {"fault"})
        ELSE
          LET fs1 == IF c.stack
                     THEN Write(fs, c.stack_stream,
                                StackLine(c.stack_level, c.times, filename,
                                          ev.f_lineno, name))
                     ELSE fs
              did1 == IF c.stack THEN {"stackline"} ELSE {}
              c1 == [c EXCEPT !.stack_level = @ + 1]
          IN  IF c.mem /\ env.fault = "frame_probe"
              THEN Raise(c1, fs1, did1 \cup {"fault"})
              ELSE Ok(PushFrame(c1, fid,
                                IF c.mem THEN GetMemory(c1, env.rss_frame)
                                ELSE 0,
                                name, filename),
                      fs1, did1 \cup {"push"})

HandleOut(c, fs, ev, fid_arg, env) ==
    LET fid == FrameId(fid_arg, ev.frame)
    IN  IF ~HasFrame(c, fid) THEN Ok(c, fs, {})
        ELSE
          LET fr == c.frames[fid]
              c1 == PopFrame(c, fid)
          IN  IF ~c.mem THEN Ok(c1, fs, {"pop"})
              ELSE IF env.fault = "frame_probe"
              THEN Raise(c1, fs, {"pop", "fault"})
              ELSE IF c.mem_stream = {} \/ c.mem_closed
              THEN Raise(c1, fs, {"pop"})
              ELSE IF env.fault = "mem_write"
              THEN Raise(c1, fs, {"pop", "fault"})
              ELSE Ok(c1,
                      Write(fs, c.mem_stream,
                            MemLine(c.times, fr.filename, ev.f_lineno, fr.name,
                                    MemDelta(GetMemory(c1, env.rss_frame),
                                             fr.mem))),
                      {"pop", "memline"})

HandleCIn(c, fs, ev, env) ==
    HandleIn(c, fs, ev, -ev.frame.id, ev.arg.name, ev.arg.module, env)

\* Variant: a native exit that looks its call up under the frame's address.
HandleCOutOfAddress(c, fs, ev, env) == HandleOut(c, fs, ev, ev.frame.id, env)

\* Lines 418-425.
HandleCOut(c, fs, ev, env) == HandleOut(c, fs, ev, -ev.frame.id, env)

\* Lines 427-434. fault names the stream whose close() raises an IOError and
\* after tells whether the failed close left the file object closed; the
\* except clause ends the call without an error.
CloseStreams(c, fault, after) ==
    IF c.mem_stream # {} /\ fault = "mem_close"
    THEN [c |-> [c EXCEPT !.mem_closed = @ \/ after], raised |-> FALSE]
    ELSE
      LET c1 == [c EXCEPT !.mem_closed = @ \/ (c.mem_stream # {})]
      IN  IF c.stack_stream # {} /\ fault = "stack_close"
          THEN [c |-> [c1 EXCEPT !.stack_closed = @ \/ after],
                raised |-> FALSE]
          ELSE [c |-> [c1 EXCEPT !.stack_closed = @ \/ (c.stack_stream # {})],
                raised |-> FALSE]

\* Variant: every native call taken for a blocking trigger.
IsAnyNativeCall(arg) == TRUE

\* Lines 346-347.
IsSleepTrigger(arg) == arg \in SleepTriggers

\* Lines 345-354: the blocking-time exclusion, run before the handlers.
SleepStep(c, fs, ev, env) ==
    IF c.sleep_trak /\ ev.event = "c_call" /\ IsSleepTrigger(ev.arg)
    THEN IF env.fault = "sleep_probe" THEN Raise(c, fs, {"fault"})
         ELSE Ok([c EXCEPT !.sleep_frames =
                      Put(@, ev.frame.id, GetMemory(c, env.rss_sleep))],
                 fs, {"open"})
    ELSE IF c.sleep_trak /\ ev.event \in {"c_return", "c_exception"}
            /\ ev.frame.id \in DOMAIN c.sleep_frames
    THEN LET mem_before == c.sleep_frames[ev.frame.id]
             c1 == [c EXCEPT !.sleep_frames = Del(@, ev.frame.id)]
         IN  IF env.fault = "sleep_probe" THEN Raise(c1, fs, {"fault"})
             ELSE Ok([c1 EXCEPT !.sleep_accounting =
                          @ + (GetMemory(c1, env.rss_sleep) - mem_before)],
                     fs, {"close"})
    ELSE Ok(c, fs, {})

\* Variant: a dispatch table without the exception events.
HandlerOfReturns(c, fs, ev, env) ==
    CASE ev.event = "call" -> HandleIn(c, fs, ev, 0, "", PyNone, env)
      [] ev.event = "return" -> HandleOut(c, fs, ev, 0, env)
      [] ev.event = "c_call" -> HandleCIn(c, fs, ev, env)
      [] ev.event = "c_return" -> HandleCOut(c, fs, ev, env)
      [] OTHER -> Ok(c, fs, {})

\* Lines 288-308 and 356-357.
Handler(c, fs, ev, env) ==
    CASE ev.event = "call" -> HandleIn(c, fs, ev, 0, "", PyNone, env)
      [] ev.event \in {"return", "exception"} -> HandleOut(c, fs, ev, 0, env)
      [] ev.event = "c_call" -> HandleCIn(c, fs, ev, env)
      [] OTHER -> HandleCOut(c, fs, ev, env)

ThreadDispatch(c, fs, ev, env) ==
    LET s == SleepStep(c, fs, ev, env)
    IN  IF s.raised \/ ev.event \notin c.dispatcher THEN s
        ELSE LET h == Handler(s.c, s.files, ev, env)
             IN  [h EXCEPT !.did = @ \cup s.did]

(***************************************************************************)
(* ProcessProfile.                                                         *)
(***************************************************************************)
ProcessPath(p) == Path(p, "process", "mem")

\* Variant: a child that goes on with the stream it inherited.
ReuseProcessStream(s, p) == [s EXCEPT !.pp.proc_mem.closed = FALSE]

\* Lines 165-170.
OpenProcessStream(s, p) ==
    [s EXCEPT !.files = Open(@, ProcessPath(p)),
              !.pp.proc_mem = [path |-> ProcessPath(p), closed |-> FALSE]]

\* Lines 83-106, after construction in process p.
NewProcessProfile(p, profile) ==
    [profile |-> profile,
     previous_profiler |-> "None",
     main_pid |-> p,
     proc_mem |-> [path |-> ProcessPath(p), closed |-> FALSE],
     proc_mem_check |-> 0,
     proc_mem_freq |-> DefaultFreq,
     profile_forked |-> FALSE,
     filter |-> <<>>,
     mem |-> TRUE,
     times |-> TRUE,
     sleep |-> TRUE,
     stack |-> FALSE]

\* Lines 188-191.
DisableHook(s) == [s EXCEPT !.hook = s.pp.previous_profiler]

\* What _dispatch hands back to the host.
Outcome(s, r, case, raised, fired, wrote, did, reset) ==
    [s |-> s, ret |-> r, case |-> case, raised |-> raised, fired |-> fired,
     wrote |-> wrote, did |-> did, reset |-> reset]

\* Variant: a dispatch boundary that lets the exception through.
Propagate(s, case, fired, wrote, did, reset) ==
    Outcome(s, "raised", case, TRUE, fired, wrote, did, reset)

\* Lines 159-163: the bare except, which returns the entry point itself.
CatchAll(s, case, fired, wrote, did, reset) ==
    Outcome(s, "dispatch", case, TRUE, fired, wrote, did, reset)

\* Variant: a cadence test in which only None disables sampling.
SampleDueUnlessNone(freq, check) == freq # NoneFreq /\ check = 0

\* Lines 133-134: whether this event writes a process-memory line.
SampleDue(freq, check) == FreqTruthy(freq) /\ check = 0

\* Lines 139-140.
NextCheck(freq, check) ==
    IF FreqTruthy(freq) THEN (check + 1) % freq ELSE check

\* Lines 132-140. raised: an exception left the block.
SampleStep(s, env) ==
    IF ~SampleDue(s.pp.proc_mem_freq, s.pp.proc_mem_check)
    THEN [s |-> [s EXCEPT !.pp.proc_mem_check =
                     NextCheck(s.pp.proc_mem_freq, @)],
          raised |-> FALSE, fired |-> FALSE, wrote |-> FALSE]
    ELSE IF env.fault = "proc_probe"
    THEN [s |-> s, raised |-> TRUE, fired |-> TRUE, wrote |-> FALSE]
    ELSE IF s.pp.proc_mem.closed
    THEN [s |-> s, raised |-> TRUE, fired |-> FALSE, wrote |-> FALSE]
    ELSE IF env.fault = "proc_write"
    THEN [s |-> s, raised |-> TRUE, fired |-> TRUE, wrote |-> FALSE]
    ELSE [s |-> [s EXCEPT !.files = Write(@, {s.pp.proc_mem.path},
                                          ProcLine(s.pp.times, env.rss_proc)),
                          !.pp.proc_mem_check =
                              NextCheck(s.pp.proc_mem_freq, @)],
          raised |-> FALSE, fired |-> FALSE, wrote |-> TRUE]

\* Lines 172-186 and 333-335: the streams a new collector asks for.
StreamPath(p, t, kind) == Path(p, getThreadName(t), kind)

\* Lines 143-152.
Forward(s, p, t, ev, env, wrote, reset) ==
    LET name == getThreadName(t)
        exists == name \in DOMAIN s.threads
        needMem == ~exists /\ s.pp.mem
        needStack == ~exists /\ s.pp.stack
    IN  IF needMem /\ env.fault = "mem_factory"
        THEN CatchAll(s, "forwarded", TRUE, wrote, {}, reset)
        ELSE
          LET fs1 == IF needMem THEN Open(s.files, StreamPath(p, t, "mem"))
                     ELSE s.files
          IN  IF needStack /\ env.fault = "stack_factory"
              THEN CatchAll([s EXCEPT !.files = fs1], "forwarded", TRUE,
                            wrote, {}, reset)
              ELSE
                LET fs2 == IF needStack
                           THEN Open(fs1, StreamPath(p, t, "stack"))
                           ELSE fs1
                    fresh == NewThreadProfile(
                                 s.pp.profile, s.pp.mem, s.pp.times,
                                 s.pp.stack, s.pp.sleep,
                                 IF s.pp.mem THEN {StreamPath(p, t, "mem")}
                                 ELSE {},
                                 IF s.pp.stack THEN {StreamPath(p, t, "stack")}
                                 ELSE {})
                    c0 == IF exists THEN s.threads[name]
                          ELSE [fresh EXCEPT !.file_filter = s.pp.filter]
                    r == ThreadDispatch(c0, fs2, ev, env)
                    s1 == [s EXCEPT !.threads = Put(@, name, r.c),
                                    !.files = r.files]
                IN  IF r.raised
                    THEN CatchAll(s1, "forwarded", "fault" \in r.did, wrote,
                                  r.did, reset)
                    ELSE Outcome(s1, "dispatch", "forwarded", FALSE, FALSE,
                                 wrote, r.did, reset)

\* Lines 132-153.
SampleAndForward(s, p, t, ev, env, reset) ==
    LET m == SampleStep(s, env)
    IN  IF m.raised
        THEN CatchAll(m.s, "sampling", m.fired, FALSE, {}, reset)
        ELSE Forward(m.s, p, t, ev, env, m.wrote, reset)

\* Lines 108-163. s holds pp, threads, files and hook; p is getpid().
ProcessDispatch(s, p, gone, t, ev, env) ==
    IF gone
    THEN IF env.fault = "setprofile"
         THEN CatchAll(s, "teardown", TRUE, FALSE, {}, FALSE)
         ELSE Outcome(DisableHook(s), "None", "teardown", FALSE, FALSE, FALSE,
                      {}, FALSE)
    ELSE IF p # s.pp.main_pid
    THEN IF s.pp.profile_forked
         THEN IF env.fault = "close"
              THEN CatchAll(s, "fork_continue", TRUE, FALSE, {}, FALSE)
              ELSE
                LET s1 == [s EXCEPT !.pp.proc_mem.closed = TRUE]
                IN  IF env.fault = "open"
                    THEN CatchAll(s1, "fork_continue", TRUE, FALSE, {}, FALSE)
                    ELSE
                      LET s2 == OpenProcessStream(s1, p)
                          s3 == [s2 EXCEPT !.threads = EmptyMap,
                                           !.pp.main_pid = p]
                      IN  SampleAndForward(s3, p, t, ev, env, TRUE)
         ELSE IF env.fault = "setprofile"
         THEN CatchAll(s, "fork_disable", TRUE, FALSE, {}, FALSE)
         ELSE Outcome(DisableHook(s), "None", "fork_disable", FALSE, FALSE,
                      FALSE, {}, FALSE)
    ELSE SampleAndForward(s, p, t, ev, env, FALSE)

(***************************************************************************)
(* History of a dispatch: what the event met and what became of it.        *)
(***************************************************************************)
CallId(ev) == IF ev.event \in NativeEvents THEN -ev.frame.id ELSE ev.frame.id

CallFile(ev) ==
    IF ev.event \in NativeEvents /\ Truthy(ev.arg.module) THEN ev.arg.module
    ELSE ev.frame.co_filename

Collector(reg, name) ==
    IF name \in DOMAIN reg THEN reg[name]
    ELSE NewThreadProfile("None", TRUE, TRUE, FALSE, TRUE, {}, {})

MapOf(reg, name) == IF name \in DOMAIN reg THEN reg[name] ELSE EmptyMap

Met(reg, f, name, ev, env, o) ==
    LET existed == name \in DOMAIN reg
        c == IF existed THEN reg[name]
             ELSE [Collector(reg, name) EXCEPT !.file_filter = f]
    IN  [op |-> "dispatch", thread |-> name, event |-> ev.event,
         id |-> ev.frame.id, fid |-> CallId(ev), line |-> ev.f_lineno,
         rss_sleep |-> env.rss_sleep, rss_frame |-> env.rss_frame,
         case |-> o.case, raised |-> o.raised, wrote |-> o.wrote,
         did |-> o.did, ret |-> o.ret, reset |-> o.reset,
         existed |-> existed,
         depth |-> Cardinality(DOMAIN c.frames), level |-> c.stack_level,
         had_frame |-> CallId(ev) \in DOMAIN c.frames,
         had_bracket |-> ev.frame.id \in DOMAIN c.sleep_frames,
         filtered |-> IF ev.event \in CallEvents
                      THEN ~StartsWith(CallFile(ev), c.file_filter)
                      ELSE CallId(ev) \in DOMAIN c.frames /\
                           ~StartsWith(c.frames[CallId(ev)].filename,
                                       c.file_filter),
         trigger |-> ev.event = "c_call" /\ ev.arg \in SleepTriggers]

CallName(ev) ==
    IF ev.event \in NativeEvents THEN ev.arg.name ELSE ev.frame.co_name

NoCall == [seq |-> 0, line |-> 0, file |-> <<>>, name |-> "", raw |-> 0,
           sampled |-> FALSE, G |-> 0, nbr |-> 0, dirty |-> FALSE]
NoBracket == [raw |-> 0, seq |-> 0]

Closed(oldb, ev, did) == "close" \in did /\ ev.frame.id \in DOMAIN oldb

\* A call that was active while a bracket closed: the bracket lies inside it
\* when it opened after the call's entry.
Adjusted(k, oldb, ev, env, did) ==
    LET b == IF Closed(oldb, ev, did) THEN oldb[ev.frame.id] ELSE NoBracket
    IN  IF ~Closed(oldb, ev, did) THEN k
        ELSE IF k.seq < b.seq
        THEN [k EXCEPT !.nbr = @ + 1, !.G = @ + (env.rss_sleep - b.raw)]
        ELSE [k EXCEPT !.dirty = TRUE]

NextCalls(old, oldb, c1, ev, env, did, seq, sampled) ==
    [k \in DOMAIN c1.frames |->
        IF ("push" \in did /\ k = CallId(ev)) \/ k \notin DOMAIN old
        THEN [seq |-> seq, line |-> ev.f_lineno, file |-> CallFile(ev),
              name |-> CallName(ev),
              raw |-> IF sampled THEN env.rss_frame ELSE 0,
              sampled |-> sampled, G |-> 0, nbr |-> 0, dirty |-> FALSE]
        ELSE Adjusted(old[k], oldb, ev, env, did)]

NextBrackets(oldb, c1, ev, env, did, seq) ==
    [i \in DOMAIN c1.sleep_frames |->
        IF ("open" \in did /\ i = ev.frame.id) \/ i \notin DOMAIN oldb
        THEN [raw |-> env.rss_sleep, seq |-> seq]
        ELSE oldb[i]]

\* The facts of the call a memory-delta line closes.
LineFacts(old, oldb, ev, env, did, name, seq, t) ==
    LET k == Adjusted(IF CallId(ev) \in DOMAIN old THEN old[CallId(ev)]
                      ELSE NoCall, oldb, ev, env, did)
    IN  [seq |-> k.seq, at |-> seq, thread |-> name, by |-> t,
         fid |-> CallId(ev),
         entry_line |-> k.line, exit_line |-> ev.f_lineno,
         file |-> k.file, name |-> k.name,
         raw_in |-> k.raw, raw_out |-> env.rss_frame, sampled |-> k.sampled,
         nbr |-> k.nbr, G |-> k.G, dirty |-> k.dirty]

MemPaths(fs) == {q \in DOMAIN fs : q.kind = "mem" /\ q.owner # "process"}

(***************************************************************************)
(* The state after construction (lines 83-106), in process 1.             *)
(***************************************************************************)
Init ==
    /\ pp = NewProcessProfile(1, "None")
    /\ threads = EmptyMap
    /\ files = Open(EmptyMap, ProcessPath(1))
    /\ hook = "None"
    /\ pid = 1
    /\ getpid_gone = FALSE
    /\ ret = "None"
    /\ run = EmptyMap
    /\ nEvents = 0
    /\ last = [op |-> "init"]
    /\ calls = EmptyMap
    /\ brackets = EmptyMap
    /\ memlog = EmptyMap
    /\ window = <<>>

(***************************************************************************)
(* The host calls the installed hook: ProcessProfile._dispatch.            *)
(***************************************************************************)
Env(rss_proc, rss_sleep, rss_frame, fault) ==
    [fault |-> fault, rss_frame |-> rss_frame, rss_sleep |-> rss_sleep,
     rss_proc |-> rss_proc]

Recorded(t, ev, env, o) ==
    LET name == getThreadName(t)
        reg == IF o.reset THEN EmptyMap ELSE threads
        old == MapOf(IF o.reset THEN EmptyMap ELSE calls, name)
        oldb == MapOf(IF o.reset THEN EmptyMap ELSE brackets, name)
        c1 == Collector(o.s.threads, name)
        sampled == Collector(reg, name).mem /\
                   (name \in DOMAIN reg \/ o.s.pp.mem)
    IN  /\ last' = Met(reg, o.s.pp.filter, name, ev, env, o)
        /\ calls' = [n \in DOMAIN o.s.threads |->
                        IF n = name
                        THEN NextCalls(old, oldb, c1, ev, env, o.did,
                                       nEvents + 1, sampled)
                        ELSE calls[n]]
        /\ brackets' = [n \in DOMAIN o.s.threads |->
                           IF n = name
                           THEN NextBrackets(oldb, c1, ev, env, o.did,
                                             nEvents + 1)
                           ELSE brackets[n]]
        /\ memlog' = [q \in MemPaths(o.s.files) |->
                         LET base == IF q \in DOMAIN memlog THEN memlog[q]
                                     ELSE <<>>
                         IN  IF "memline" \in o.did /\ q \in c1.mem_stream
                             THEN Append(base,
                                         LineFacts(old, oldb, ev, env, o.did,
                                                   name, nEvents + 1, t))
                             ELSE base]
        /\ window' = Append(window,
                            IF o.wrote THEN "w"
                            ELSE IF o.raised \/ o.ret = "None" THEN "x"
                            ELSE "n")

\* An event that reads no probe is dispatched once, not once per reading, and
\* a fault is injected only where the event reaches the failing operation.
ReadsProbe(o) ==
    o.wrote \/ o.did \cap {"open", "close", "push", "pop"} # {}

Dispatched(t, ev, envs, limit) ==
    /\ hook = "dispatch"
    /\ nEvents < limit
    /\ \E env \in envs :
       \E o \in {ProcessDispatch([pp |-> pp, threads |-> threads,
                                  files |-> files, hook |-> hook],
                                 pid, getpid_gone, t, ev, env)} :
           /\ env.fault # "none" => o.fired
           /\ ReadsProbe(o) \/ o.fired
                 \/ env = CHOOSE e \in envs : e.fault = "none"
           /\ pp' = o.s.pp
           /\ threads' = o.s.threads
           /\ files' = o.s.files
           /\ hook' = o.s.hook
           /\ ret' = o.ret
           /\ nEvents' = nEvents + 1
           /\ Recorded(t, ev, env, o)
    /\ UNCHANGED <<pid, getpid_gone, run>>

(***************************************************************************)
(* The configuration surface (lines 188-265).                              *)
(***************************************************************************)
Quiet == UNCHANGED <<files, pid, getpid_gone, ret, run, nEvents, last, calls,
                     brackets, memlog>>

\* Lines 197-201.
Enable ==
    /\ pp' = [pp EXCEPT !.previous_profiler = hook]
    /\ hook' = "dispatch"
    /\ last' = [op |-> "enable"]
    /\ UNCHANGED <<threads, files, pid, getpid_gone, ret, run, nEvents, calls,
                   brackets, memlog, window>>

\* Lines 188-191.
Disable ==
    /\ hook' = pp.previous_profiler
    /\ last' = [op |-> "disable"]
    /\ UNCHANGED <<pp, threads, files, pid, getpid_gone, ret, run, nEvents,
                   calls, brackets, memlog, window>>

\* Variant: a setter that changes the default and leaves the collectors.
SetFilterOfDefaultOnly(f) ==
    /\ pp' = [pp EXCEPT !.filter = f]
    /\ UNCHANGED <<threads, hook, window>>
    /\ Quiet

\* Lines 213-223.
SetFilter(f) ==
    /\ pp' = [pp EXCEPT !.filter = f]
    /\ threads' = [n \in DOMAIN threads |->
                      [threads[n] EXCEPT !.file_filter = f]]
    /\ UNCHANGED <<hook, window>>
    /\ Quiet

\* Lines 237-241.
TrackMemory(enable) ==
    /\ pp' = [pp EXCEPT !.mem = enable]
    /\ threads' = [n \in DOMAIN threads |-> [threads[n] EXCEPT !.mem = enable]]
    /\ UNCHANGED <<hook, window>>
    /\ Quiet

\* Lines 243-259: the body sets the memory switch.
TrackSleeps(enable) ==
    /\ pp' = [pp EXCEPT !.mem = enable]
    /\ threads' = [n \in DOMAIN threads |-> [threads[n] EXCEPT !.mem = enable]]
    /\ UNCHANGED <<hook, window>>
    /\ Quiet

\* Lines 261-265.
TrackStack(enable) ==
    /\ pp' = [pp EXCEPT !.stack = enable]
    /\ threads' = [n \in DOMAIN threads |->
                      [threads[n] EXCEPT !.stack = enable]]
    /\ UNCHANGED <<hook, window>>
    /\ Quiet

\* Lines 207-211.
LogTimestamps(enable) ==
    /\ pp' = [pp EXCEPT !.times = enable]
    /\ threads' = [n \in DOMAIN threads |->
                      [threads[n] EXCEPT !.times = enable]]
    /\ UNCHANGED <<hook, window>>
    /\ Quiet

\* Lines 225-235.
SetProcessMemoryFrequence(freq) ==
    /\ pp' = [pp EXCEPT !.proc_mem_freq = freq]
    /\ window' = <<>>
    /\ UNCHANGED <<threads, hook>>
    /\ Quiet

\* Lines 203-205.
EnableForkedProfile ==
    /\ pp' = [pp EXCEPT !.profile_forked = TRUE]
    /\ UNCHANGED <<threads, hook, window>>
    /\ Quiet

\* Lines 193-195.
DisableForkedProfile ==
    /\ pp' = [pp EXCEPT !.profile_forked = FALSE]
    /\ UNCHANGED <<threads, hook, window>>
    /\ Quiet

(***************************************************************************)
(* The host forks (the model follows the child) or tears down.             *)
(***************************************************************************)
Fork ==
    /\ pid < 1 + MaxForks
    /\ pid' = pid + 1
    /\ window' = <<>>
    /\ UNCHANGED <<pp, threads, files, hook, getpid_gone, ret, run, nEvents,
                   last, calls, brackets, memlog>>

Teardown ==
    /\ ~getpid_gone
    /\ getpid_gone' = TRUE
    /\ UNCHANGED <<pp, threads, files, hook, pid, ret, run, nEvents, last,
                   calls, brackets, memlog, window>>

(***************************************************************************)
(* Inputs of the specifications.                                           *)
(***************************************************************************)
Frames == {FrameF, FrameG}
Filters == {<<>>, FileA, FileB}

CallsOf(frames) == {Event("call", fr, fr.co_firstlineno, NoArg) : fr \in frames}
OutsOf(frames, kinds, lines) ==
    {Event(k, fr, l, Read) : k \in kinds, fr \in frames, l \in lines}
CCallsOf(frames, args, lines) ==
    {Event("c_call", fr, l, a) : fr \in frames, a \in args, l \in lines}

Steady(readings) == {Env(100, m, m, "none") : m \in readings}

Start == hook # "dispatch" /\ Enable

(***************************************************************************)
(* Spec: one collector under every kind of event and a changing filter.    *)
(***************************************************************************)
Events == CallsOf(Frames) \cup OutsOf(Frames, {"return", "exception"}, {11})
          \cup CCallsOf({FrameF}, {Sleep, Acquire, Read}, {10})
          \cup OutsOf({FrameF}, {"c_return", "c_exception"}, {10})

Dispatch == \E ev \in Events :
                Dispatched("T1", ev, Steady({100, 150}), MaxEvents)
ChangeFilter == \E f \in Filters : pp.filter # f /\ SetFilter(f)

Next == Start \/ Dispatch \/ ChangeFilter

Spec == Init /\ [][Next]_vars

(***************************************************************************)
(* Claims checked under Spec.                                              *)
(***************************************************************************)
Stepped == nEvents' = nEvents + 1

Forwarded(kinds) ==
    /\ Stepped
    /\ last'.event \in kinds
    /\ last'.case = "forwarded"
    /\ ~last'.reset

\* The collector of a thread before the step (as constructed when the step
\* creates it) and after it.
Pre(n) ==
    IF n \in DOMAIN threads THEN threads[n]
    ELSE [NewThreadProfile(pp.profile, pp.mem, pp.times, pp.stack, pp.sleep,
                           {}, {}) EXCEPT !.file_filter = pp.filter]
Post(n) == IF n \in DOMAIN threads' THEN threads'[n] ELSE Pre(n)

NoLine(n) ==
    \A q \in DOMAIN files' :
        q.owner = n => files'[q] = IF q \in DOMAIN files THEN files[q] ELSE <<>>

SameStack(n) ==
    /\ Post(n).frames = Pre(n).frames
    /\ Post(n).stack_level = Pre(n).stack_level

SameSleep(n) ==
    /\ Post(n).sleep_accounting = Pre(n).sleep_accounting
    /\ Post(n).sleep_frames = Pre(n).sleep_frames

\* C2 as stated: an exit or exception event whose call identity has no active
\* frame emits no line, raises no error and leaves the frame map, the nesting
\* depth and the accumulator unchanged.
C2_Original ==
    [][(Forwarded(OutEvents) /\ ~last'.had_frame)
       => /\ NoLine(last'.thread)
          /\ ~last'.raised
          /\ SameStack(last'.thread)
          /\ Post(last'.thread).sleep_accounting
               = Pre(last'.thread).sleep_accounting]_vars

\* C2 amended: such an event emits no line, raises no error and leaves the
\* frame map and the nesting depth unchanged; the accumulator is unchanged too
\* unless the event is a native exit closing an open blocking bracket of its
\* frame, and then it moves by the corrected reading minus the recorded one and
\* the bracket leaves the side table.
C2_Amended ==
    [][(Forwarded(OutEvents) /\ ~last'.had_frame)
       => LET n == last'.thread IN
          /\ NoLine(n)
          /\ ~last'.raised
          /\ SameStack(n)
          /\ IF last'.event \in NativeEvents /\ last'.had_bracket
                /\ Pre(n).sleep_trak
             THEN /\ Post(n).sleep_frames = Del(Pre(n).sleep_frames, last'.id)
                  /\ Post(n).sleep_accounting
                       = Pre(n).sleep_accounting
                         + ((last'.rss_sleep - Pre(n).sleep_accounting)
                            - Pre(n).sleep_frames[last'.id])
             ELSE SameSleep(n)]_vars

C2_Witness ==
    /\ last.op = "dispatch"
    /\ last.event \in OutEvents
    /\ last.case = "forwarded"
    /\ ~last.had_frame
    /\ last.had_bracket
    /\ threads[last.thread].sleep_accounting # 0
    /\ DOMAIN threads[last.thread].frames # {}

\* C3: every memory-delta line closes exactly one earlier entry whose frame was
\* still active, and no entry is closed by two lines.
C3_Theorem ==
    \A q \in DOMAIN memlog :
        /\ q \in DOMAIN files
        /\ Len(memlog[q]) = Len(files[q])
        /\ \A i \in 1..Len(memlog[q]) :
              /\ memlog[q][i].seq >= 1
              /\ memlog[q][i].seq < memlog[q][i].at
              /\ \A r \in DOMAIN memlog :
                    \A j \in 1..Len(memlog[r]) :
                        memlog[r][j].seq = memlog[q][i].seq
                            => (r = q /\ j = i)

C3_Witness ==
    \E q \in DOMAIN memlog :
        /\ Len(memlog[q]) >= 2
        /\ memlog[q][1].seq > memlog[q][2].seq
        /\ memlog[q][1].at < memlog[q][2].at

\* C8: an exit whose frame was pushed removes the frame, decrements the depth
\* and emits the memory-delta line of that frame, whatever the filter is now.
C8_Theorem ==
    [][(Forwarded(OutEvents) /\ last'.had_frame)
       => LET n == last'.thread
              fr == Pre(n).frames[last'.fid]
          IN
          /\ last'.fid \notin DOMAIN Post(n).frames
          /\ Post(n).stack_level = Pre(n).stack_level - 1
          /\ (Pre(n).mem /\ ~last'.raised)
                => \E q \in Pre(n).mem_stream :
                      /\ Len(files'[q]) = Len(files[q]) + 1
                      /\ files'[q][Len(files'[q])].file = fr.filename
                      /\ files'[q][Len(files'[q])].name = fr.name]_vars

C8_Witness ==
    /\ last.op = "dispatch"
    /\ last.event \in OutEvents
    /\ last.had_frame
    /\ last.filtered
    /\ "memline" \in last.did

\* C9 as stated: an enter event whose file does not start with the filter
\* prefix emits nothing and changes nothing, the blocking side table included.
C9_Original ==
    [][(Forwarded(CallEvents) /\ last'.filtered)
       => /\ NoLine(last'.thread)
          /\ ~last'.raised
          /\ SameStack(last'.thread)
          /\ SameSleep(last'.thread)]_vars

\* C9 amended: such an event emits nothing and leaves the frame map, the
\* nesting depth and the accumulator unchanged; the blocking side table is
\* unchanged too unless the event is a native entry matching a blocking
\* trigger, and then the corrected reading is recorded under its frame.
C9_Amended ==
    [][(Forwarded(CallEvents) /\ last'.filtered)
       => LET n == last'.thread IN
          /\ NoLine(n)
          /\ ~last'.raised
          /\ SameStack(n)
          /\ Post(n).sleep_accounting = Pre(n).sleep_accounting
          /\ Post(n).sleep_frames
               = IF last'.trigger /\ Pre(n).sleep_trak
                 THEN Put(Pre(n).sleep_frames, last'.id,
                          last'.rss_sleep - Pre(n).sleep_accounting)
                 ELSE Pre(n).sleep_frames]_vars

C9_Witness ==
    /\ last.op = "dispatch"
    /\ last.event = "c_call"
    /\ last.case = "forwarded"
    /\ last.filtered
    /\ last.trigger
    /\ last.id \in DOMAIN threads[last.thread].sleep_frames
    /\ last.fid \notin DOMAIN threads[last.thread].frames

(***************************************************************************)
(* SpecFaults: failing probes, factories, writes and host calls, with a    *)
(* fork, a teardown and the stack switch.                                  *)
(***************************************************************************)
Faults == {"none", "proc_probe", "proc_write", "mem_factory", "stack_factory",
           "sleep_probe", "frame_probe", "stack_write", "mem_write", "close",
           "open", "setprofile"}

Faulty == {Env(100, 100, 100, f) : f \in Faults}

FaultEvents == CallsOf({FrameF}) \cup OutsOf({FrameF}, {"return"}, {11})
               \cup CCallsOf({FrameF}, {Sleep}, {10})
               \cup OutsOf({FrameF}, {"c_return"}, {10})

DispatchFaulty == \E ev \in FaultEvents :
                      Dispatched("T1", ev, Faulty, MaxFaultEvents)
ChangeStack == \E b \in BOOLEAN : pp.stack # b /\ TrackStack(b)
AllowFork == ~pp.profile_forked /\ EnableForkedProfile

NextFaults ==
    Start \/ DispatchFaulty \/ ChangeStack \/ AllowFork \/ Fork \/ Teardown

SpecFaults == Init /\ [][NextFaults]_vars

\* C1: whatever fails while an event is processed, _dispatch returns normally,
\* and it returns its own entry point, the hook staying installed, except at
\* host teardown and in a forked child under the disable policy.
C1_Theorem ==
    last.op = "dispatch"
        => /\ ret \in {"dispatch", "None"}
           /\ ret = last.ret
           /\ last.case \notin {"teardown", "fork_disable"}
                 => (ret = "dispatch" /\ hook = "dispatch")
           /\ ret = "None" => last.case \in {"teardown", "fork_disable"}

C1_Witness ==
    /\ last.op = "dispatch"
    /\ last.case = "forwarded"
    /\ last.raised
    /\ "fault" \in last.did
    /\ ret = "dispatch"
    /\ hook = "dispatch"

(***************************************************************************)
(* SpecStack: the call trace of one thread, the switch set before or after *)
(* the collector exists.                                                   *)
(***************************************************************************)
StackEvents == CallsOf(Frames) \cup OutsOf(Frames, {"return"}, {12})
               \cup CCallsOf({FrameG}, {Read}, {11})
               \cup OutsOf({FrameG}, {"c_return"}, {11})

DispatchTraced == \E ev \in StackEvents :
                      Dispatched("T1", ev, Steady({100}), MaxStackEvents)
StackOn == ~pp.stack /\ TrackStack(TRUE)

NextStack == Start \/ DispatchTraced \/ StackOn

SpecStack == Init /\ [][NextStack]_vars

StackFile(n) == files[Path(pid, n, "stack")]

\* C4 as stated: the trace line of an enter event is indented by as many
\* spaces as the thread had active frames when the event arrived.
C4_Original ==
    (last.op = "dispatch" /\ "stackline" \in last.did)
        => Len(StackFile(last.thread)[Len(StackFile(last.thread))].indent)
             = last.depth

(***************************************************************************)
(* SpecMem: managed calls of one thread under changing memory readings.    *)
(***************************************************************************)
MemEvents == CallsOf(Frames) \cup OutsOf({FrameF}, {"return"}, {10, 12})
             \cup OutsOf({FrameG}, {"return"}, {11, 13})

DispatchMeasured ==
    \E ev \in MemEvents :
        Dispatched("T1", ev, Steady({1000, 1010, 1030, 1040}), MaxMemEvents)

NextMem == Start \/ DispatchMeasured

SpecMem == Init /\ [][NextMem]_vars

\* A memory-delta line of a call entered with memory tracking on, with no
\* blocking bracket between its entry and its exit.
Plain(m) == m.sampled /\ m.nbr = 0 /\ ~m.dirty

InExitOrder(q) ==
    \A i, j \in 1..Len(memlog[q]) : i < j => memlog[q][i].at < memlog[q][j].at

\* C5 as stated: each completed call emits one line whose delta is the reading
\* at its exit minus the reading at its entry, lines appear in the order of
\* the exits, and each carries the file, line and function of its call.
C5_Original ==
    \A q \in DOMAIN memlog :
        /\ Len(files[q]) = Len(memlog[q])
        /\ InExitOrder(q)
        /\ \A i \in 1..Len(memlog[q]) :
              Plain(memlog[q][i])
                  => /\ files[q][i].delta
                          = memlog[q][i].raw_out - memlog[q][i].raw_in
                     /\ files[q][i].file = memlog[q][i].file
                     /\ files[q][i].name = memlog[q][i].name
                     /\ files[q][i].line = memlog[q][i].entry_line

\* C5 amended: as stated, except that the line number a memory-delta line
\* carries is the line the frame was executing when it exited, the file and
\* the function being those of the call.
C5_Amended ==
    \A q \in DOMAIN memlog :
        /\ Len(files[q]) = Len(memlog[q])
        /\ InExitOrder(q)
        /\ \A i \in 1..Len(memlog[q]) :
              Plain(memlog[q][i])
                  => /\ files[q][i].delta
                          = memlog[q][i].raw_out - memlog[q][i].raw_in
                     /\ files[q][i].file = memlog[q][i].file
                     /\ files[q][i].name = memlog[q][i].name
                     /\ files[q][i].line = memlog[q][i].exit_line

\* enter f (1000), enter g (1010), exit g (1030), exit f (1040).
C5_Witness ==
    LET q == Path(1, "T1", "mem") IN
    /\ q \in DOMAIN memlog
    /\ files[q] = <<MemLine(TRUE, FileA, 13, "g", 20),
                    MemLine(TRUE, FileA, 12, "f", 40)>>
    /\ memlog[q][1].raw_in = 1010 /\ memlog[q][1].raw_out = 1030
    /\ memlog[q][2].raw_in = 1000 /\ memlog[q][2].raw_out = 1040
    /\ memlog[q][1].entry_line = 11 /\ memlog[q][2].entry_line = 10
    /\ memlog[q][2].seq < memlog[q][1].seq

(***************************************************************************)
(* SpecSampling: two threads under a changing sampling cadence.            *)
(***************************************************************************)
Cadences == {NoneFreq, 0, 1, 2, 3}

SampleEvents == CallsOf({FrameF}) \cup OutsOf({FrameF}, {"return"}, {11})

DispatchSampled ==
    \E t \in {"T1", "T2"}, ev \in SampleEvents :
        Dispatched(t, ev, Steady({100}), MaxSampleEvents)
ChangeCadence ==
    \E n \in Cadences : pp.proc_mem_freq # n /\ SetProcessMemoryFrequence(n)

NextSampling == Start \/ DispatchSampled \/ ChangeCadence

SpecSampling == Init /\ [][NextSampling]_vars

WritesIn(i, n) == Cardinality({j \in i..(i + n - 1) : window[j] = "w"})

\* C6 as stated: while the cadence is held at N >= 1, every block of N
\* consecutive dispatched events holds exactly one event that writes a
\* process-memory line.
C6_Original ==
    FreqTruthy(pp.proc_mem_freq)
        => \A i \in 1..(Len(window) - pp.proc_mem_freq + 1) :
               (\A j \in i..(i + pp.proc_mem_freq - 1) : window[j] # "x")
                   => WritesIn(i, pp.proc_mem_freq) = 1

SleepEvents == CallsOf({FrameF}) \cup OutsOf({FrameF}, {"return"}, {12})
               \cup CCallsOf({FrameF}, {Sleep, Read}, {11})
               \cup OutsOf({FrameF}, {"c_return"}, {11})

DispatchBlocking ==
    \E ev \in SleepEvents :
        Dispatched("T1", ev, Steady({100, 150, 170}), MaxSleepEvents)

NextSleep == Start \/ DispatchBlocking

SpecSleep == Init /\ [][NextSleep]_vars

\* C10: the line of a call that contains one completed blocking bracket,
\* during which the raw reading grew by G, reports the raw reading at the exit
\* minus the raw reading at the entry minus G.
C10_Theorem ==
    \A q \in DOMAIN memlog :
        /\ Len(files[q]) = Len(memlog[q])
        /\ \A i \in 1..Len(memlog[q]) :
              (memlog[q][i].sampled /\ ~memlog[q][i].dirty
               /\ memlog[q][i].nbr = 1)
                  => files[q][i].delta
                       = (memlog[q][i].raw_out - memlog[q][i].raw_in)
                         - memlog[q][i].G

C10_Witness ==
    \E q \in DOMAIN memlog :
        \E i \in 1..Len(memlog[q]) :
            /\ memlog[q][i].sampled /\ ~memlog[q][i].dirty
            /\ memlog[q][i].nbr = 1
            /\ memlog[q][i].fid > 0
            /\ memlog[q][i].G > 0
            /\ memlog[q][i].raw_out - memlog[q][i].raw_in > memlog[q][i].G
            /\ files[q][i].name = "f"

\* C11: a call entered and exited while the accumulator is constant, every
\* bracket of the thread that closes having closed before its entry, reports
\* the raw reading at its exit minus the raw reading at its entry, whatever
\* the accumulator holds.
C11_Theorem ==
    \A q \in DOMAIN memlog :
        /\ Len(files[q]) = Len(memlog[q])
        /\ \A i \in 1..Len(memlog[q]) :
              (memlog[q][i].sampled /\ ~memlog[q][i].dirty
               /\ memlog[q][i].nbr = 0)
                  => files[q][i].delta
                       = memlog[q][i].raw_out - memlog[q][i].raw_in

\* A bracket over raw 100 -> 150 leaves the accumulator at 50; a later call
\* over raw 150 -> 170 reports 20.
C11_Witness ==
    LET q == Path(1, "T1", "mem") IN
    /\ last.op = "dispatch"
    /\ "memline" \in last.did
    /\ threads["T1"].sleep_accounting = 50
    /\ threads["T1"].sleep_frames = EmptyMap
    /\ memlog[q][Len(memlog[q])].nbr = 0
    /\ ~memlog[q][Len(memlog[q])].dirty
    /\ memlog[q][Len(memlog[q])].raw_in = 150
    /\ memlog[q][Len(memlog[q])].raw_out = 170
    /\ memlog[q][Len(memlog[q])].fid > 0
    /\ files[q][Len(files[q])].delta = 20

\* The step dispatches a native exit of thread n to a collector that tracks
\* sleeps and holds an open bracket of the event's frame.
ClosesBracket(n) ==
    /\ Forwarded({"c_return", "c_exception"})
    /\ last'.thread = n
    /\ last'.had_bracket
    /\ Pre(n).sleep_trak

\* C12: the accumulator of a collector changes only at a native exit that
\* closes an open bracket, by the corrected reading at the exit minus the
\* recorded one, the bracket leaving the side table; brackets are opened only
\* by native entries matching a blocking trigger; no other step, a filter
\* change included, changes or resets the accumulator.
C12_Theorem ==
    [][\A n \in DOMAIN threads' :
          /\ IF ClosesBracket(n)
             THEN /\ Post(n).sleep_accounting
                       = Pre(n).sleep_accounting
                         + ((last'.rss_sleep - Pre(n).sleep_accounting)
                            - Pre(n).sleep_frames[last'.id])
                  /\ last'.id \notin DOMAIN Post(n).sleep_frames
             ELSE Post(n).sleep_accounting = Pre(n).sleep_accounting
          /\ (DOMAIN Post(n).sleep_frames \ DOMAIN Pre(n).sleep_frames # {})
                => (Forwarded({"c_call"}) /\ last'.thread = n
                    /\ last'.trigger)]_vars

C12_Witness ==
    /\ last.op = "dispatch"
    /\ last.event \in {"c_return", "c_exception"}
    /\ last.had_bracket
    /\ last.had_frame
    /\ "close" \in last.did
    /\ threads[last.thread].sleep_accounting = 50
    /\ last.id \notin DOMAIN threads[last.thread].sleep_frames

(***************************************************************************)
(* SpecHost: enable and disable called in any order, a foreign hook, both  *)
(* fork policies, a fork and a teardown, with two threads.                 *)
(***************************************************************************)
HostEvents == CallsOf({FrameF}) \cup OutsOf({FrameF}, {"return"}, {11})

\* The host installed a profile function of its own before the first enable.
ForeignHook ==
    /\ last.op = "init"
    /\ hook = "None"
    /\ hook' = "foreign"
    /\ UNCHANGED <<pp, threads, files, pid, getpid_gone, ret, run, nEvents,
                   last, calls, brackets, memlog, window>>

DispatchHosted ==
    \E t \in {"T1", "T2"}, ev \in HostEvents :
        Dispatched(t, ev, Steady({100}), MaxHostEvents)
ForbidFork == pp.profile_forked /\ DisableForkedProfile

NextHost ==
    \/ ForeignHook
    \/ Enable
    \/ Disable
    \/ DispatchHosted
    \/ AllowFork
    \/ ForbidFork
    \/ Fork
    \/ Teardown

SpecHost == Init /\ [][NextHost]_vars

\* The event is dispatched in a process other than the recorded one.
InChild == ~getpid_gone /\ pid # pp.main_pid

\* C13 as stated: under the disable policy an event dispatched in a forked
\* child uninstalls the hook, returns no continuation, writes to no stream and
\* creates or updates no collector.
C13_Original ==
    [][(Stepped /\ InChild /\ ~pp.profile_forked)
       => /\ ret' = "None"
          /\ hook' # "dispatch"
          /\ files' = files
          /\ threads' = threads]_vars

\* C14: under the continue policy the first event dispatched in a forked
\* child opens a fresh process stream under the new identity, discards the
\* registry and adopts the identity before it samples and forwards, so that
\* after the event the registry holds only the collector the event created,
\* with streams of the new identity, and the fresh process stream holds at
\* most the line this event sampled; an event dispatched under the recorded
\* identity resets nothing.
C14_Theorem ==
    [][/\ (Stepped /\ InChild /\ pp.profile_forked)
          => LET n == last'.thread IN
             /\ last'.reset
             /\ pp'.main_pid = pid
             /\ pp'.proc_mem = [path |-> ProcessPath(pid), closed |-> FALSE]
             /\ files'[ProcessPath(pid)]
                  = IF last'.wrote THEN <<ProcLine(pp.times, 100)>> ELSE <<>>
             /\ files'[pp.proc_mem.path] = files[pp.proc_mem.path]
             /\ DOMAIN threads' = {n}
             /\ ~last'.existed
             /\ threads'[n].mem_stream = {StreamPath(pid, n, "mem")}
             /\ DOMAIN threads'[n].frames \subseteq {last'.fid}
             /\ \A q \in DOMAIN files : q.pid # pid => files'[q] = files[q]
       /\ (Stepped /\ ~getpid_gone /\ pid = pp.main_pid)
          => /\ ~last'.reset
             /\ pp'.main_pid = pp.main_pid
             /\ pp'.proc_mem = pp.proc_mem
             /\ DOMAIN threads \subseteq DOMAIN threads']_vars

\* The child's first event, of a thread other than the parent's only one,
\* followed by a second event that finds the identity adopted.
C14_Witness ==
    /\ last.op = "dispatch"
    /\ ~last.reset
    /\ last.existed
    /\ pid = 2
    /\ pp.main_pid = 2
    /\ pp.proc_mem.path = ProcessPath(2)
    /\ DOMAIN threads = {"T2"}
    /\ Path(1, "T1", "mem") \in DOMAIN files
    /\ Path(2, "T2", "mem") \in DOMAIN files
    /\ Path(1, "T2", "mem") \notin DOMAIN files

\* C15 as stated: after a sequence of enable() and disable() calls that ends
\* with disable() the installed hook is the one the host had before the first
\* enable(), a foreign hook or none, never the coordinator's own dispatch.
C15_Original ==
    last.op = "disable" => hook \in {"None", "foreign"}

\* C20 as stated: at host teardown dispatch disables the coordinator, the
\* hook being no longer its own dispatch, and returns no continuation,
\* without sampling, creating or updating a collector or writing to a stream;
\* and no continuation is returned only there and in a forked child under the
\* disable policy.
C20_Original ==
    [][/\ (Stepped /\ getpid_gone)
          => /\ ret' = "None"
             /\ hook' # "dispatch"
             /\ files' = files
             /\ threads' = threads
             /\ pp' = pp
       /\ (Stepped /\ ret' = "None")
          => (getpid_gone \/ (InChild /\ ~pp.profile_forked))]_vars

(***************************************************************************)
(* SpecConfig: the setters of the configuration surface called between the *)
(* events of two threads.                                                  *)
(***************************************************************************)
ConfigEvents == CallsOf({FrameF}) \cup OutsOf({FrameF}, {"return"}, {11})

DispatchConfigured ==
    \E t \in {"T1", "T2"}, ev \in ConfigEvents :
        Dispatched(t, ev, Steady({100}), MaxConfigEvents)
ChangeSleeps == \E b \in BOOLEAN : TrackSleeps(b)
ChangeMemory == \E b \in BOOLEAN : TrackMemory(b)
ChangeTimes == \E b \in BOOLEAN : LogTimestamps(b)
ChangePrefix == \E f \in {<<>>, FileB} : SetFilter(f)

NextConfig ==
    \/ Start
    \/ DispatchConfigured
    \/ ChangeSleeps
    \/ ChangeMemory
    \/ ChangeStack
    \/ ChangeTimes
    \/ ChangePrefix

SpecConfig == Init /\ [][NextConfig]_vars

\* Every collector of the registry after the step carries the coordinator's
\* defaults after the step.
Agree ==
    \A n \in DOMAIN threads' :
        /\ threads'[n].file_filter = pp'.filter
        /\ threads'[n].mem = pp'.mem
        /\ threads'[n].stack = pp'.stack
        /\ threads'[n].times = pp'.times

\* C16: setFilter, trackMemory, trackStack and logTimestamps called with v
\* set the coordinator's default to v and the setting of every collector of
\* the registry to v, and after every step, a step that creates a collector
\* included, every collector agrees with the defaults.
C16_Theorem ==
    [][/\ \A f \in Filters :
             SetFilter(f)
                => /\ pp'.filter = f
                   /\ \A n \in DOMAIN threads : threads'[n].file_filter = f
       /\ \A b \in BOOLEAN :
             /\ TrackMemory(b)
                   => /\ pp'.mem = b
                      /\ \A n \in DOMAIN threads : threads'[n].mem = b
             /\ TrackStack(b)
                   => /\ pp'.stack = b
                      /\ \A n \in DOMAIN threads : threads'[n].stack = b
             /\ LogTimestamps(b)
                   => /\ pp'.times = b
                      /\ \A n \in DOMAIN threads : threads'[n].times = b
       /\ Agree]_vars

\* Two collectors exist, one more is created after the calls, and all carry
\* the values set: a prefix, memory off, stack on, timestamps off.
C16_Witness ==
    /\ last.op = "dispatch"
    /\ ~last.existed
    /\ Cardinality(DOMAIN threads) = 2
    /\ pp.filter = FileB /\ ~pp.mem /\ pp.stack /\ ~pp.times
    /\ \A n \in DOMAIN threads :
          /\ threads[n].file_filter = FileB
          /\ ~threads[n].mem /\ threads[n].stack /\ ~threads[n].times
    /\ \E n \in DOMAIN threads : threads[n].mem_stream # {}

\* C17 as stated: trackSleeps(v) sets the coordinator's sleep-tracking default
\* to v and the sleep tracking of every collector of the registry to v.
C17_Original ==
    [][\A b \in BOOLEAN :
          TrackSleeps(b)
             => /\ pp'.sleep = b
                /\ \A n \in DOMAIN threads : threads'[n].sleep_trak = b]_vars

\* The switches and the filter of the coordinator and of the collectors that
\* a call of the setter named by `own` must leave alone.
Others(s, reg, own) ==
    [k \in {"mem", "times", "stack", "sleep", "filter"} \ {own} |->
        <<s[k], [n \in DOMAIN reg |->
                    CASE k = "mem" -> reg[n].mem
                      [] k = "times" -> reg[n].times
                      [] k = "stack" -> reg[n].stack
                      [] k = "sleep" -> reg[n].sleep_trak
                      [] OTHER -> reg[n].file_filter]>>]

\* C18 as stated: a call of the setter of one switch leaves the other three
\* switches and the filter as they were, in the defaults and in every
\* collector; in particular trackSleeps leaves memory tracking as it was.
C18_Original ==
    [][\A b \in BOOLEAN :
          /\ TrackSleeps(b)
                => Others(pp', threads', "sleep") = Others(pp, threads, "sleep")
          /\ TrackMemory(b)
                => Others(pp', threads', "mem") = Others(pp, threads, "mem")
          /\ TrackStack(b)
                => Others(pp', threads', "stack")
                     = Others(pp, threads, "stack")
          /\ LogTimestamps(b)
                => Others(pp', threads', "times")
                     = Others(pp, threads, "times")]_vars

\* C19 as stated: on a collector whose stack switch is on, however it came to
\* be on, an enter event passing the filter emits its trace line and is
\* processed normally; on a collector whose memory switch is on a matched
\* exit emits its memory-delta line and is processed normally.
C19_Original ==
    [][/\ (Forwarded(CallEvents) /\ ~last'.filtered
           /\ Pre(last'.thread).stack)
          => /\ ~last'.raised
             /\ "stackline" \in last'.did
             /\ "push" \in last'.did
       /\ (Forwarded(OutEvents) /\ last'.had_frame /\ Pre(last'.thread).mem)
          => /\ ~last'.raised
             /\ "memline" \in last'.did]_vars

(***************************************************************************)
(* Claims checked under SpecFaults: a failing reopen after a fork.         *)
(***************************************************************************)
\* The step dispatches an event in a forked child under the continue policy
\* and the close-and-reopen of the process stream fails.
ReopenFails ==
    /\ Stepped
    /\ InChild
    /\ pp.profile_forked
    /\ last'.case = "fork_continue"
    /\ last'.raised

\* C21 as stated: when the process stream cannot be reopened for the new
\* identity the coordinator uninstalls itself, and the event dispatched after
\* a failed attempt does not attempt the close-and-reopen again.
C21_Original ==
    [][/\ ReopenFails => hook' # "dispatch"
       /\ (Stepped /\ last.op = "dispatch" /\ last.case = "fork_continue"
           /\ last.raised)
          => last'.case # "fork_continue"]_vars

(***************************************************************************)
(* SpecRegistry: the registry of two threads under the setters, the        *)
(* continue policy and a fork.                                             *)
(***************************************************************************)
NextRegistry ==
    \/ Start
    \/ DispatchConfigured
    \/ ChangeMemory
    \/ ChangeStack
    \/ ChangePrefix
    \/ AllowFork
    \/ Fork

SpecRegistry == Init /\ [][NextRegistry]_vars

\* The settings and the streams a collector is constructed with.
Built(c) ==
    [dispatcher |-> c.dispatcher, file_filter |-> c.file_filter,
     mem |-> c.mem, times |-> c.times, stack |-> c.stack,
     sleep_trak |-> c.sleep_trak, mem_stream |-> c.mem_stream,
     stack_stream |-> c.stack_stream]

\* No file is created or truncated by the step: every file keeps its lines.
FilesGrow ==
    /\ DOMAIN files' = DOMAIN files
    /\ \A q \in DOMAIN files :
          /\ Len(files'[q]) >= Len(files[q])
          /\ SubSeq(files'[q], 1, Len(files[q])) = files[q]

\* C22: the first event of a thread adds one collector to the registry, built
\* from the coordinator's defaults at that moment with the streams they ask
\* for; a later event of the thread goes to the collector the registry holds,
\* which keeps its streams, its settings and its other frames, no file being
\* reopened; the collectors of other threads are untouched; and only the
\* event dispatched in a forked child under the continue policy empties the
\* registry, no other step removing an entry.
C22_Theorem ==
    [][/\ (Stepped /\ last'.case = "forwarded")
          => LET n == last'.thread
                 reg == IF last'.reset THEN EmptyMap ELSE threads
             IN
             /\ DOMAIN threads' = DOMAIN reg \cup {n}
             /\ \A m \in DOMAIN reg \ {n} : threads'[m] = reg[m]
             /\ last'.existed = (n \in DOMAIN reg)
             /\ IF n \in DOMAIN reg
                THEN /\ Built(threads'[n]) = Built(threads[n])
                     /\ FilesGrow
                     /\ \A k \in DOMAIN threads[n].frames \ {last'.fid} :
                           /\ k \in DOMAIN threads'[n].frames
                           /\ threads'[n].frames[k] = threads[n].frames[k]
                ELSE /\ Built(threads'[n])
                          = [dispatcher |-> Dispatcher(pp.profile),
                             file_filter |-> pp.filter,
                             mem |-> pp.mem, times |-> pp.times,
                             stack |-> pp.stack, sleep_trak |-> pp.sleep,
                             mem_stream |->
                                 IF pp.mem THEN {StreamPath(pid, n, "mem")}
                                 ELSE {},
                             stack_stream |->
                                 IF pp.stack THEN {StreamPath(pid, n, "stack")}
                                 ELSE {}]
                     /\ DOMAIN threads'[n].frames \subseteq {last'.fid}
                     /\ threads'[n].sleep_accounting = 0
                     /\ threads'[n].sleep_frames = EmptyMap
       /\ (Stepped /\ last'.case # "forwarded") => threads' = threads
       /\ (Stepped /\ last'.reset) => (InChild /\ pp.profile_forked)
       /\ ~Stepped
          => /\ DOMAIN threads' = DOMAIN threads
             /\ \A n \in DOMAIN threads :
                   /\ threads'[n].frames = threads[n].frames
                   /\ threads'[n].stack_level = threads[n].stack_level
                   /\ threads'[n].mem_stream = threads[n].mem_stream
                   /\ threads'[n].stack_stream = threads[n].stack_stream]_vars

\* A collector created with memory tracking off and the call trace on
\* receives the exit of the call whose entry created it.
C22_Witness ==
    /\ last.op = "dispatch"
    /\ last.existed
    /\ ~last.reset
    /\ last.event = "return"
    /\ last.had_frame
    /\ DOMAIN threads = {"T1"}
    /\ threads["T1"].mem_stream = {}
    /\ threads["T1"].stack_stream = {StreamPath(1, "T1", "stack")}
    /\ Len(files[StreamPath(1, "T1", "stack")]) = 1
    /\ threads["T1"].frames = EmptyMap

(***************************************************************************)
(* Claims checked under Spec: the two identity spaces.                     *)
(***************************************************************************)
\* The frames of a collector whose call identity is managed (positive) or
\* native (negative).
ManagedFrames(c) == [k \in {x \in DOMAIN c.frames : x > 0} |-> c.frames[k]]
NativeFrames(c) == [k \in {x \in DOMAIN c.frames : x < 0} |-> c.frames[k]]

\* The line the step appended to the memory stream of thread n.
NewMemLine(n) ==
    LET q == CHOOSE x \in Pre(n).mem_stream : TRUE
    IN  files'[q][Len(files'[q])]

\* C23: a native and a managed call of the same frame address are two frames
\* of the collector: a native event leaves every managed frame as it was, a
\* managed event leaves every native frame as it was, an entry never
\* overwrites a frame of the other kind, and the line of an exit reports the
\* frame of its own kind.
C23_Theorem ==
    [][\A n \in DOMAIN threads' :
          /\ 0 \notin DOMAIN Post(n).frames
          /\ (Forwarded(NativeEvents) /\ last'.thread = n)
                => /\ ManagedFrames(Post(n)) = ManagedFrames(Pre(n))
                   /\ last'.fid = -last'.id
                   /\ "memline" \in last'.did
                         => /\ NewMemLine(n).name = Pre(n).frames[-last'.id].name
                            /\ NewMemLine(n).file
                                 = Pre(n).frames[-last'.id].filename
          /\ (Forwarded(ManagedEvents) /\ last'.thread = n)
                => /\ NativeFrames(Post(n)) = NativeFrames(Pre(n))
                   /\ last'.fid = last'.id
                   /\ "memline" \in last'.did
                         => /\ NewMemLine(n).name = Pre(n).frames[last'.id].name
                            /\ NewMemLine(n).file
                                 = Pre(n).frames[last'.id].filename]_vars

\* Frame f is entered, calls a native function and the native call returns:
\* the line names the native function and the managed frame of f stays.
C23_Witness ==
    /\ last.op = "dispatch"
    /\ last.event = "c_return"
    /\ last.id = 1
    /\ last.had_frame
    /\ "memline" \in last.did
    /\ DOMAIN threads["T1"].frames = {1}
    /\ threads["T1"].frames[1].name = "f"
    /\ LET f == files[StreamPath(1, "T1", "mem")]
       IN  f[Len(f)].name \in {"sleep", "acquire", "read"}

(***************************************************************************)
(* Claims checked under Spec: exception exits.                             *)
(***************************************************************************)
\* The normal exit of the kind of the exception event the step dispatched,
\* of the same frame, at the same line, under the same readings.
NormalExit ==
    Event(IF last'.event = "exception" THEN "return" ELSE "c_return",
          CHOOSE fr \in Frames : fr.id = last'.id, last'.line, Read)

AsNormalExit ==
    ProcessDispatch([pp |-> pp, threads |-> threads, files |-> files,
                     hook |-> hook],
                    pid, getpid_gone, last'.thread, NormalExit,
                    Env(100, last'.rss_sleep, last'.rss_frame, "none"))

\* C24: an exception event leaves the coordinator, the collectors and the
\* files exactly as the normal exit of the same kind, of the same call, would
\* have left them from the same state: the same frame removed, the same line
\* written, the same adjustment of the accumulator, the same value returned.
C24_Theorem ==
    [][(Stepped /\ last'.event \in {"exception", "c_exception"})
       => /\ pp' = AsNormalExit.s.pp
          /\ threads' = AsNormalExit.s.threads
          /\ files' = AsNormalExit.s.files
          /\ hook' = AsNormalExit.s.hook
          /\ ret' = AsNormalExit.ret
          /\ last'.did = AsNormalExit.did
          /\ last'.raised = AsNormalExit.raised]_vars

\* A native exception ends a blocking call: the bracket is closed, the
\* accumulator takes the 50 the reading grew by, and the line is written.
C24_Witness ==
    /\ last.op = "dispatch"
    /\ last.event = "c_exception"
    /\ last.had_frame
    /\ last.had_bracket
    /\ {"close", "pop", "memline"} \subseteq last.did
    /\ threads["T1"].sleep_accounting = 50
    /\ -1 \notin DOMAIN threads["T1"].frames

(***************************************************************************)
(* SpecNames: two threads that carry the same name, each running a frame   *)
(* of its own.                                                             *)
(***************************************************************************)
DispatchNamed ==
    \/ \E ev \in CallsOf({FrameF}) \cup OutsOf({FrameF}, {"return"}, {11}) :
           Dispatched("T1", ev, Steady({100}), MaxNameEvents)
    \/ \E ev \in CallsOf({FrameG}) \cup OutsOf({FrameG}, {"return"}, {12}) :
           Dispatched("U1", ev, Steady({100}), MaxNameEvents)

NextNames == Start \/ DispatchNamed

SpecNames == Init /\ [][NextNames]_vars

\* C25 as stated: the process stream holds only the lines the coordinator
\* samples, and the lines of a per-thread stream are all caused by the events
\* of one thread, whatever the names of the threads are.
C25_Original ==
    /\ \A q \in DOMAIN files :
          q.owner = "process"
              => \A i \in 1..Len(files[q]) :
                    DOMAIN files[q][i] = {"stamp", "rss"}
    /\ \A q \in DOMAIN memlog :
          \A i, j \in 1..Len(memlog[q]) : memlog[q][i].by = memlog[q][j].by

(***************************************************************************)
(* SpecClose: the owner of a collector closes its streams, the closes       *)
(* failing or not, between the events of the thread.                       *)
(***************************************************************************)
CloseFaults == {"none", "mem_close", "stack_close"}

CloseStreamsOf(n, fault, after) ==
    /\ n \in DOMAIN threads
    /\ (fault = "none" => after)
    /\ \E r \in {CloseStreams(threads[n], fault, after)} :
          /\ threads' = [threads EXCEPT ![n] = r.c]
          /\ last' = [op |-> "closeStreams", thread |-> n,
                      raised |-> r.raised]
    /\ UNCHANGED <<pp, files, hook, pid, getpid_gone, ret, run, nEvents, calls,
                   brackets, memlog, window>>

Close == \E fault \in CloseFaults, after \in BOOLEAN :
             CloseStreamsOf("T1", fault, after)

DispatchClosing ==
    \E ev \in CallsOf({FrameF}) \cup OutsOf({FrameF}, {"return"}, {11}) :
        Dispatched("T1", ev, Steady({100}), MaxCloseEvents)

NextClose == Start \/ DispatchClosing \/ ChangeStack \/ ChangeMemory \/ Close

SpecClose == Init /\ [][NextClose]_vars

\* C26 as stated: closeStreams() ends without an error whichever close
\* fails, and afterwards every stream of the collector whose own close did
\* not fail is closed: a failing close of the memory stream does not keep the
\* stack stream open.
C26_Original ==
    [][\A fault \in CloseFaults, after \in BOOLEAN :
          CloseStreamsOf("T1", fault, after)
             => /\ ~last'.raised
                /\ (threads["T1"].mem_stream # {} /\ fault # "mem_close")
                      => threads'["T1"].mem_closed
                /\ (threads["T1"].stack_stream # {} /\ fault # "stack_close")
                      => threads'["T1"].stack_closed]_vars

(***************************************************************************)
(* SpecGIL: the body of ProcessProfile._dispatch run by two threads under  *)
(* the global interpreter lock. One thread runs at a time and the           *)
(* interpreter may switch to another between any two steps; a step is the   *)
(* stretch of the body between two accesses of a shared field or a write.  *)
(* No fork and no teardown: the tests of lines 115 and 122 fail.           *)
(***************************************************************************)
\* Lines 108-130: the host calls the hook in thread t.
Enter(t, ev, limit) ==
    /\ hook = "dispatch"
    /\ ~getpid_gone /\ pid = pp.main_pid
    /\ t \notin DOMAIN run
    /\ nEvents < limit
    /\ run' = Put(run, t, [pc |-> "test", ev |-> ev, check |-> 0])
    /\ nEvents' = nEvents + 1
    /\ UNCHANGED <<pp, threads, files, hook, pid, getpid_gone, ret, last,
                   calls, brackets, memlog, window>>

\* Lines 133-134: the tests of the cadence and of the counter.
TestCadence(t) ==
    /\ t \in DOMAIN run /\ run[t].pc = "test"
    /\ run' = [run EXCEPT ![t].pc =
                  IF SampleDue(pp.proc_mem_freq, pp.proc_mem_check)
                  THEN "write"
                  ELSE IF FreqTruthy(pp.proc_mem_freq) THEN "load"
                  ELSE "lookup"]
    /\ UNCHANGED <<pp, threads, files, hook, pid, getpid_gone, ret, nEvents,
                   last, calls, brackets, memlog, window>>

\* Lines 135-138: the sample line, written and flushed.
WriteSample(t) ==
    /\ t \in DOMAIN run /\ run[t].pc = "write"
    /\ files' = Write(files, {pp.proc_mem.path}, ProcLine(pp.times, 100))
    /\ run' = [run EXCEPT ![t].pc = "load"]
    /\ UNCHANGED <<pp, threads, hook, pid, getpid_gone, ret, nEvents, last,
                   calls, brackets, memlog, window>>

\* Line 139: the counter is read.
LoadCheck(t) ==
    /\ t \in DOMAIN run /\ run[t].pc = "load"
    /\ run' = [run EXCEPT ![t].check = pp.proc_mem_check, ![t].pc = "store"]
    /\ UNCHANGED <<pp, threads, files, hook, pid, getpid_gone, ret, nEvents,
                   last, calls, brackets, memlog, window>>

\* Lines 139-140: the value read, plus one, modulo the cadence, is assigned.
StoreCheck(t) ==
    /\ t \in DOMAIN run /\ run[t].pc = "store"
    /\ pp' = [pp EXCEPT !.proc_mem_check =
                 NextCheck(pp.proc_mem_freq, run[t].check)]
    /\ run' = [run EXCEPT ![t].pc = "lookup"]
    /\ UNCHANGED <<threads, files, hook, pid, getpid_gone, ret, nEvents,
                   last, calls, brackets, memlog, window>>

\* Lines 143-145: the registry is asked for the collector of the thread.
Lookup(t) ==
    /\ t \in DOMAIN run /\ run[t].pc = "lookup"
    /\ run' = [run EXCEPT ![t].pc =
                  IF getThreadName(t) \in DOMAIN threads THEN "forward"
                  ELSE "create"]
    /\ UNCHANGED <<pp, threads, files, hook, pid, getpid_gone, ret, nEvents,
                   last, calls, brackets, memlog, window>>

\* Lines 146-151: a collector is built from the defaults and registered.
Create(t) ==
    /\ t \in DOMAIN run /\ run[t].pc = "create"
    /\ LET memPath == StreamPath(pid, t, "mem")
           stackPath == StreamPath(pid, t, "stack")
           fs1 == IF pp.mem THEN Open(files, memPath) ELSE files
       IN  /\ files' = IF pp.stack THEN Open(fs1, stackPath) ELSE fs1
           /\ threads' =
                Put(threads, getThreadName(t),
                    [NewThreadProfile(pp.profile, pp.mem, pp.times, pp.stack,
                                      pp.sleep,
                                      IF pp.mem THEN {memPath} ELSE {},
                                      IF pp.stack THEN {stackPath} ELSE {})
                        EXCEPT !.file_filter = pp.filter])
    /\ run' = [run EXCEPT ![t].pc = "forward"]
    /\ UNCHANGED <<pp, hook, pid, getpid_gone, ret, nEvents, last, calls,
                   brackets, memlog, window>>

\* Lines 152-153 and 159-163: the event is handled by the collector and the
\* call returns its entry point, an exception or not.
ForwardEvent(t) ==
    /\ t \in DOMAIN run /\ run[t].pc = "forward"
    /\ \E r \in {ThreadDispatch(threads[getThreadName(t)], files, run[t].ev,
                                Env(100, 100, 100, "none"))} :
          /\ threads' = [threads EXCEPT ![getThreadName(t)] = r.c]
          /\ files' = r.files
          /\ last' = [op |-> "return", thread |-> getThreadName(t),
                      raised |-> r.raised]
    /\ ret' = "dispatch"
    /\ run' = Del(run, t)
    /\ UNCHANGED <<pp, hook, pid, getpid_gone, nEvents, calls, brackets,
                   memlog, window>>

NextGIL ==
    \/ Start
    \/ \E t \in {"T1", "T2"} :
          \/ \E ev \in CallsOf({FrameF}) \cup OutsOf({FrameF}, {"return"}, {11}) :
                Enter(t, ev, MaxGilEvents)
          \/ TestCadence(t)
          \/ WriteSample(t)
          \/ LoadCheck(t)
          \/ StoreCheck(t)
          \/ Lookup(t)
          \/ Create(t)
          \/ ForwardEvent(t)

SpecGIL == Init /\ [][NextGIL]_vars

\* C27 as stated: the interleaved dispatches leave the shared state as
\* dispatches run one after the other would: when no dispatch is in progress
\* the sampling counter has counted every event, the process stream holds one
\* line for each cadence boundary passed, and a thread about to register a
\* collector has none in the registry.
C27_Original ==
    /\ run = EmptyMap
          => /\ pp.proc_mem_check = nEvents % pp.proc_mem_freq
             /\ Len(files[pp.proc_mem.path])
                  = (nEvents + pp.proc_mem_freq - 1) \div pp.proc_mem_freq
    /\ \A t \in DOMAIN run :
          run[t].pc = "create" => getThreadName(t) \notin DOMAIN threads

(***************************************************************************)
(* SpecModes: a coordinator constructed with each profile mode, as         *)
(* examples/main.py constructs it with "python", and one thread under      *)
(* managed and native events.                                              *)
(***************************************************************************)
Modes == {"None", "c", "python", "both"}

ModeEvents == CallsOf({FrameF}) \cup OutsOf({FrameF}, {"return", "exception"}, {11})
              \cup CCallsOf({FrameF}, {Sleep, Read}, {10})
              \cup OutsOf({FrameF}, {"c_return", "c_exception"}, {10})

\* Lines 72-106: the state after ProcessProfile(profile=m).
InitModes ==
    /\ pp \in {NewProcessProfile(1, m) : m \in Modes}
    /\ threads = EmptyMap
    /\ files = Open(EmptyMap, ProcessPath(1))
    /\ hook = "None"
    /\ pid = 1
    /\ getpid_gone = FALSE
    /\ ret = "None"
    /\ run = EmptyMap
    /\ nEvents = 0
    /\ last = [op |-> "init"]
    /\ calls = EmptyMap
    /\ brackets = EmptyMap
    /\ memlog = EmptyMap
    /\ window = <<>>

DispatchInMode ==
    \E ev \in ModeEvents :
        Dispatched("T1", ev, Steady({100, 150}), MaxModeEvents)

NextModes == Start \/ DispatchInMode \/ ChangeStack

SpecModes == InitModes /\ [][NextModes]_vars

\* The kinds of event the claim gives to each mode.
Selected ==
    IF pp.profile = "python" THEN ManagedEvents
    ELSE IF pp.profile = "c" THEN NativeEvents
    ELSE ManagedEvents \cup NativeEvents

\* The lines the step appended to the streams of thread n.
LinesAdded(n) ==
    LET sizes == [q \in {x \in DOMAIN files' : x.owner = n} |->
                     Len(files'[q])
                       - (IF q \in DOMAIN files THEN Len(files[q]) ELSE 0)]
    IN  sizes

\* C28: the profile mode selects the kinds of event that reach the call-stack
\* handlers. An event of a kind the mode leaves out changes no frame, no depth
\* and writes no line of the thread; an event of a kind the mode selects is
\* handled: unless the handler fails, an entry creates its frame (and writes
\* the stack line when the stack is tracked) and an exit of a live frame
\* removes it and writes its memory line. In every mode a native call of a blocking trigger opens a bracket and
\* the native exit of a frame with a bracket closes it and adds the growth
\* of the reading to the accumulator.
C28_Theorem ==
    [][Forwarded(ManagedEvents \cup NativeEvents)
       => LET n == last'.thread
          IN  /\ last'.event \notin Selected
                    => /\ SameStack(n)
                       /\ NoLine(n)
              /\ (last'.event \in Selected /\ last'.event \in CallEvents
                  /\ ~last'.raised)
                    => /\ DOMAIN Post(n).frames
                            = DOMAIN Pre(n).frames \cup {last'.fid}
                       /\ Post(n).stack_level = Pre(n).stack_level + 1
                       /\ LinesAdded(n)
                            = [q \in DOMAIN LinesAdded(n) |->
                                  IF q.kind = "stack" /\ pp.stack THEN 1 ELSE 0]
              /\ (last'.event \in Selected /\ last'.event \in OutEvents
                  /\ last'.had_frame /\ ~last'.raised)
                    => /\ DOMAIN Post(n).frames
                            = DOMAIN Pre(n).frames \ {last'.fid}
                       /\ Post(n).stack_level = Pre(n).stack_level - 1
                       /\ LinesAdded(n)
                            = [q \in DOMAIN LinesAdded(n) |->
                                  IF q.kind = "mem" THEN 1 ELSE 0]
              /\ last'.trigger
                    => /\ last'.id \in DOMAIN Post(n).sleep_frames
                       /\ Post(n).sleep_frames[last'.id]
                            = GetMemory(Pre(n), last'.rss_sleep)
              /\ (last'.event \in {"c_return", "c_exception"}
                  /\ last'.had_bracket)
                    => /\ last'.id \notin DOMAIN Post(n).sleep_frames
                       /\ Post(n).sleep_accounting
                            = Pre(n).sleep_accounting
                              + (GetMemory(Pre(n), last'.rss_sleep)
                                 - Pre(n).sleep_frames[last'.id])]_vars

\* In mode "python" frame f is entered and calls time.sleep, which returns
\* after the reading grew by 50: the managed frame is the only frame, no line
\* was written, the bracket was opened and closed and the accumulator holds 50.
C28_Witness ==
    /\ pp.profile = "python"
    /\ last.op = "dispatch"
    /\ last.event = "c_return"
    /\ last.had_bracket
    /\ "T1" \in DOMAIN threads
    /\ DOMAIN threads["T1"].frames = {1}
    /\ threads["T1"].stack_level = 1
    /\ threads["T1"].sleep_frames = EmptyMap
    /\ threads["T1"].sleep_accounting = 50
    /\ files[StreamPath(1, "T1", "mem")] = <<>>

(***************************************************************************)
(* SpecShared: two threads that carry the same name, so that one collector *)
(* handles the events of both (lines 143-152), with the entry handler run  *)
(* in its steps under the global interpreter lock. T1 runs f and U1 runs   *)
(* g: the two frames are alive together and have different addresses.     *)
(***************************************************************************)
FrameOf(t) == IF t = "T1" THEN FrameF ELSE FrameG

\* Lines 356-357 and 373-383: the table, the filter, the stack line, and the
\* read of the depth by the augmented assignment.
HandleInLoad(t) ==
    /\ t \in DOMAIN run /\ run[t].pc = "forward"
    /\ run[t].ev.event = "call"
    /\ LET n == getThreadName(t)
           c == threads[n]
           ev == run[t].ev
           skipped == "call" \notin c.dispatcher
                      \/ ~PassesFilter(c, ev.frame.co_filename)
           failed == ~skipped /\ c.stack
                     /\ (c.stack_stream = {} \/ c.stack_closed)
       IN  /\ files' = IF skipped \/ failed \/ ~c.stack THEN files
                       ELSE Write(files, c.stack_stream,
                                  StackLine(c.stack_level, c.times,
                                            ev.frame.co_filename, ev.f_lineno,
                                            ev.frame.co_name))
           /\ run' = IF skipped \/ failed THEN Del(run, t)
                     ELSE [run EXCEPT ![t].check = c.stack_level,
                                      ![t].pc = "level"]
           /\ ret' = IF skipped \/ failed THEN "dispatch" ELSE ret
           /\ last' = IF skipped \/ failed
                      THEN [op |-> "return", thread |-> n, raised |-> failed]
                      ELSE last
    /\ UNCHANGED <<pp, threads, hook, pid, getpid_gone, nEvents, calls,
                   brackets, memlog, window>>

\* Line 383: the value read, plus one, is assigned to the depth.
HandleInStore(t) ==
    /\ t \in DOMAIN run /\ run[t].pc = "level"
    /\ threads' = [threads EXCEPT ![getThreadName(t)].stack_level =
                      run[t].check + 1]
    /\ run' = [run EXCEPT ![t].pc = "push"]
    /\ UNCHANGED <<pp, files, hook, pid, getpid_gone, ret, nEvents, last,
                   calls, brackets, memlog, window>>

\* Lines 384-385 and 153: the frame is stored and the call returns.
HandleInPush(t) ==
    /\ t \in DOMAIN run /\ run[t].pc = "push"
    /\ LET n == getThreadName(t)
           c == threads[n]
           ev == run[t].ev
       IN  /\ threads' = [threads EXCEPT ![n] =
                             PushFrame(c, FrameId(0, ev.frame),
                                       IF c.mem THEN GetMemory(c, 100) ELSE 0,
                                       ev.frame.co_name, ev.frame.co_filename)]
           /\ last' = [op |-> "return", thread |-> n, raised |-> FALSE]
    /\ ret' = "dispatch"
    /\ run' = Del(run, t)
    /\ UNCHANGED <<pp, files, hook, pid, getpid_gone, nEvents, calls,
                   brackets, memlog, window>>

\* The switches taken are those inside the handlers: a thread runs the
\* coordinator's part of its dispatch (lines 108-151) while every other thread
\* is outside the dispatch or inside a handler.
NextShared ==
    \/ Start
    \/ \E t \in {"T1", "U1"} :
          \/ /\ \A u \in DOMAIN run \ {t} :
                    run[u].pc \in {"forward", "level", "push"}
             /\ \/ \E ev \in CallsOf({FrameOf(t)})
                             \cup OutsOf({FrameOf(t)}, {"return"}, {11}) :
                      Enter(t, ev, MaxSharedEvents)
                \/ TestCadence(t)
                \/ WriteSample(t)
                \/ LoadCheck(t)
                \/ StoreCheck(t)
                \/ Lookup(t)
                \/ Create(t)
          \/ HandleInLoad(t)
          \/ HandleInStore(t)
          \/ HandleInPush(t)
          \/ (t \in DOMAIN run /\ run[t].ev.event # "call" /\ ForwardEvent(t))

SpecShared == Init /\ [][NextShared]_vars

\* C29 as stated: in every reachable state the depth of every collector is
\* non-negative and at least the number of frames in its frame map.
C29_Original ==
    \A n \in DOMAIN threads :
        /\ threads[n].stack_level >= 0
        /\ threads[n].stack_level >= Cardinality(DOMAIN threads[n].frames)

(***************************************************************************)
(* Claims checked under SpecFaults: an event whose handling fails.         *)
(***************************************************************************)
\* C30 as stated: an event that reached the collector of its thread and whose
\* handling raised an exception, swallowed at lines 159-163, leaves the frame
\* map, the depth, the accumulator and the side table of that collector as
\* they were before the event.
C30_Original ==
    [][(Stepped /\ last'.case = "forwarded" /\ last'.raised
        /\ last'.thread \in DOMAIN threads')
       => LET n == last'.thread
          IN  /\ Post(n).frames = Pre(n).frames
              /\ Post(n).stack_level = Pre(n).stack_level
              /\ Post(n).sleep_accounting = Pre(n).sleep_accounting
              /\ Post(n).sleep_frames = Pre(n).sleep_frames]_vars

(***************************************************************************)
(* SpecToggle: memory tracking switched off and on between the events of   *)
(* one thread.                                                             *)
(***************************************************************************)
DispatchToggled ==
    \E ev \in CallsOf({FrameF}) \cup OutsOf({FrameF}, {"return"}, {11}) :
        Dispatched("T1", ev, Steady({100, 150}), MaxToggleEvents)

NextToggle == Start \/ DispatchToggled \/ ChangeMemory

SpecToggle == Init /\ [][NextToggle]_vars

\* C31 as stated: every memory-delta line closes a call whose entry took a
\* reading, and reports the reading at the exit minus that reading at the
\* entry, whatever trackMemory was called in between.
C31_Original ==
    \A q \in MemPaths(files) :
        /\ Len(files[q]) = Len(memlog[q])
        /\ \A i \in 1..Len(memlog[q]) :
              /\ memlog[q][i].sampled
              /\ files[q][i].delta
                   = memlog[q][i].raw_out - memlog[q][i].raw_in

(***************************************************************************)
(* SpecSetter: the program calls the setters while thread T1 is inside its *)
(* dispatch, the creation of its collector run in two steps: the           *)
(* constructor opens the streams, and the interpreter may switch threads   *)
(* before the collector is stored in the registry.                         *)
(***************************************************************************)
\* Lines 146-150: the collector is built from the defaults read now.
Construct(t) ==
    /\ t \in DOMAIN run /\ run[t].pc = "create"
    /\ LET memPath == StreamPath(pid, t, "mem")
           stackPath == StreamPath(pid, t, "stack")
           fs1 == IF pp.mem THEN Open(files, memPath) ELSE files
       IN  /\ files' = IF pp.stack THEN Open(fs1, stackPath) ELSE fs1
           /\ run' = [run EXCEPT ![t] =
                [pc |-> "register", ev |-> run[t].ev, check |-> run[t].check,
                 made |-> [NewThreadProfile(pp.profile, pp.mem, pp.times,
                                            pp.stack, pp.sleep,
                                            IF pp.mem THEN {memPath} ELSE {},
                                            IF pp.stack THEN {stackPath}
                                            ELSE {})
                              EXCEPT !.file_filter = pp.filter]]]
    /\ UNCHANGED <<pp, threads, hook, pid, getpid_gone, ret, nEvents, last,
                   calls, brackets, memlog, window>>

\* Line 151: the collector is stored under the name of the thread.
Register(t) ==
    /\ t \in DOMAIN run /\ run[t].pc = "register"
    /\ threads' = Put(threads, getThreadName(t), run[t].made)
    /\ run' = [run EXCEPT ![t] =
                  [pc |-> "forward", ev |-> run[t].ev, check |-> run[t].check]]
    /\ UNCHANGED <<pp, files, hook, pid, getpid_gone, ret, nEvents, last,
                   calls, brackets, memlog, window>>

NextSetter ==
    \/ Start
    \/ \E ev \in CallsOf({FrameF}) \cup OutsOf({FrameF}, {"return"}, {11}) :
          Enter("T1", ev, MaxSetterEvents)
    \/ TestCadence("T1")
    \/ WriteSample("T1")
    \/ LoadCheck("T1")
    \/ StoreCheck("T1")
    \/ Lookup("T1")
    \/ Construct("T1")
    \/ Register("T1")
    \/ ForwardEvent("T1")
    \/ ChangeStack
    \/ ChangeMemory
    \/ ChangeTimes
    \/ ChangePrefix

SpecSetter == Init /\ [][NextSetter]_vars

\* C32 as stated: a setter that has returned is effective for every collector
\* of the registry, the ones added after it included: each registered
\* collector carries the coordinator's current filter, memory, stack and
\* timestamp settings.
C32_Original ==
    \A n \in DOMAIN threads :
        /\ threads[n].file_filter = pp.filter
        /\ threads[n].mem = pp.mem
        /\ threads[n].stack = pp.stack
        /\ threads[n].times = pp.times

(***************************************************************************)
(* Claims checked under SpecFaults: the streams of a forked child.         *)
(***************************************************************************)
\* The streams a collector holds.
StreamsOf(c) == c.mem_stream \cup c.stack_stream

\* C33: in a child that goes on profiling, with the default layout of the
\* streams, no event writes to, or truncates, a file opened under another
\* process identity; once the fork is handled the process stream and the
\* streams of every registered collector are files of the child's own
\* identity; and the exit, dispatched in the child, of a frame entered before
\* the fork finds no frame: it removes nothing and writes no line.
C33_Theorem ==
    [][Stepped
       => /\ \A q \in DOMAIN files :
                /\ q \in DOMAIN files'
                /\ q.pid # pid => files'[q] = files[q]
          /\ pp'.main_pid = pid
                => /\ pp'.proc_mem.path.pid = pid
                   /\ \A n \in DOMAIN threads' :
                         \A q \in StreamsOf(threads'[n]) : q.pid = pid
          /\ last'.reset
                => /\ pp'.main_pid = pid
                   /\ pp.proc_mem.path.pid # pid
                   /\ DOMAIN threads' \subseteq {last'.thread}
          /\ (last'.reset /\ last'.event \in OutEvents)
                => /\ last'.did \cap {"pop", "memline"} = {}
                   /\ \A n \in DOMAIN threads' :
                         threads'[n].frames = EmptyMap]_vars

\* Frame f is entered in the parent, the process forks with the continue
\* policy set, and f returns in the child: the frame map of the child's new
\* collector is empty, its stream is a file of the child, and the parent's
\* files are as the fork left them.
C33_Witness ==
    /\ pid = 2
    /\ pp.main_pid = 2
    /\ last.op = "dispatch"
    /\ last.reset
    /\ last.event = "return"
    /\ last.did = {}
    /\ Path(1, "T1", "mem") \in DOMAIN files
    /\ "T1" \in DOMAIN threads
    /\ threads["T1"].mem_stream = {Path(2, "T1", "mem")}
    /\ threads["T1"].frames = EmptyMap
    /\ files[Path(2, "T1", "mem")] = <<>>
    /\ pp.proc_mem.path = ProcessPath(2)

====
